---- MODULE Spec2Model ----
(***************************************************************************)
(* A model of the pattern engine of Filesflow: PatternManager of           *)
(* src/utils/patterns.py (render, preview, counter store, reset) on top of *)
(* the users table of src/database.py (rows, the preferences column and    *)
(* the database lock).                                                     *)
(*                                                                         *)
(* Strings are sequences of one-character strings, so that the regular     *)
(* expressions and str.replace of the source are computed character by     *)
(* character.  Threads call the public operations; every access to the     *)
(* shared counter cache and every database call is one step.               *)
(***************************************************************************)
EXTENDS Integers, Sequences, FiniteSets, TLC

(***************************************************************************)
(* Bounds of the model.                                                    *)
(***************************************************************************)
\* Largest counter value found in the preferences column when the model starts.
MaxStored == 2
\* Number of hash seeds a process run can draw (PYTHONHASHSEED randomisation).
NSeeds == 2
\* Largest number of pieces a text given to the validator or the sanitizer is
\* made of.
MaxPieces == 3

Threads == {1, 2}
Users == {1, 2}
Seeds == 0 .. (NSeeds - 1)
NoThread == 0
\* Python's None where a string is expected, and where a number is expected.
NoneStr == <<"None">>
NoneSize == -1

(***************************************************************************)
(* String helpers: Python's str operations on sequences of characters.     *)
(***************************************************************************)
\* s[i:] starts with tok
StartsWithAt(s, i, tok) ==
    /\ i >= 1
    /\ i + Len(tok) - 1 <= Len(s)
    /\ SubSeq(s, i, i + Len(tok) - 1) = tok

\* s.endswith(tok)
EndsWith(s, tok) ==
    /\ Len(tok) <= Len(s)
    /\ SubSeq(s, Len(s) - Len(tok) + 1, Len(s)) = tok

\* tok in s
Contains(s, tok) == \E i \in 1 .. (Len(s) + 1) : StartsWithAt(s, i, tok)

\* The text of s from position i on with every non-overlapping occurrence of
\* old, left to right, replaced by new: one step per occurrence.
RECURSIVE ReplaceFrom(_, _, _, _)
ReplaceFrom(s, old, new, i) ==
    LET occ == {j \in i .. Len(s) : StartsWithAt(s, j, old)}
    IN IF occ = {} THEN SubSeq(s, i, Len(s))
       ELSE LET j == CHOOSE m \in occ : \A n \in occ : m <= n
            IN SubSeq(s, i, j - 1) \o new \o ReplaceFrom(s, old, new, j + Len(old))

\* s.replace(old, new) for a non-empty old: every non-overlapping occurrence,
\* left to right.
Replace(s, old, new) ==
    IF old = <<>> \/ ~Contains(s, old) THEN s ELSE ReplaceFrom(s, old, new, 1)

\* Index of the first occurrence of character c in s at or after i, 0 if none.
RECURSIVE IndexFrom(_, _, _)
IndexFrom(s, c, i) ==
    IF i > Len(s) THEN 0
    ELSE IF s[i] = c THEN i ELSE IndexFrom(s, c, i + 1)

\* Index of the last occurrence of character c in s, 0 if none.
RECURSIVE LastIndex(_, _, _)
LastIndex(s, c, i) ==
    IF i < 1 THEN 0
    ELSE IF s[i] = c THEN i ELSE LastIndex(s, c, i - 1)

\* str(n) for n >= 0
DigitChar(d) == CASE d = 0 -> "0" [] d = 1 -> "1" [] d = 2 -> "2" [] d = 3 -> "3"
                  [] d = 4 -> "4" [] d = 5 -> "5" [] d = 6 -> "6" [] d = 7 -> "7"
                  [] d = 8 -> "8" [] d = 9 -> "9"

RECURSIVE IntToStr(_)
IntToStr(n) ==
    IF n < 10 THEN <<DigitChar(n)>>
    ELSE IntToStr(n \div 10) \o <<DigitChar(n % 10)>>

(***************************************************************************)
(* Texts used by the source.                                               *)
(***************************************************************************)
LB == "{"
RB == "}"
TokCounterOpen == <<"{", "c", "o", "u", "n", "t", "e", "r">>

\* The characters _clean_filename replaces (patterns.py line 261).
InvalidChars == {"/", "\\", ":", "*", "?", "\"", "<", ">", "|"}
Digits == {"0", "1", "2", "3", "4", "5", "6", "7", "8", "9"}
TokRenamedFile == <<"r", "e", "n", "a", "m", "e", "d", "_", "f", "i", "l", "e">>
TokFile == <<"f", "i", "l", "e">>
TokUserDefault == <<"U", "s", "e", "r">>

(***************************************************************************)
(* The clock and the entropy of one render.  The clock is one fixed        *)
(* instant (2026-01-02 03:04:05 local time); the random digits and the     *)
(* uuid fragment are drawn by the action that renders.                     *)
(***************************************************************************)
NowDate == <<"2", "0", "2", "6", "0", "1", "0", "2">>
NowTime == <<"0", "3", "0", "4", "0", "5">>
NowTimestamp == <<"1", "7", "6", "7", "3", "2", "3", "0", "4", "5">>
UuidChoices == {<<"a", "b", "c", "d", "e", "f", "0", "1">>}
RandomDigitChoices == {"0", "7"}

(***************************************************************************)
(* Pure helpers of PatternManager.                                         *)
(***************************************************************************)
\* _remove_extension: the name up to its last '.', or the whole name.
RemoveExtension(name) ==
    LET k == LastIndex(name, ".", Len(name))
    IN IF k = 0 THEN name ELSE SubSeq(name, 1, k - 1)

\* _get_extension: '.' and what follows the last '.', or ''.
GetExtension(name) ==
    LET k == LastIndex(name, ".", Len(name))
    IN IF k = 0 THEN <<>> ELSE SubSeq(name, k, Len(name))

\* n / d rounded to the nearest integer, ties to even (Python's format of a
\* float with a fixed number of decimals).
RoundDiv(n, d) ==
    LET q == n \div d
        r == n % d
    IN IF 2 * r < d THEN q
       ELSE IF 2 * r > d THEN q + 1
       ELSE IF q % 2 = 0 THEN q ELSE q + 1

Kilo == 1024

\* _format_size for a byte count below 1024 GB.
FormatSize(size) ==
    IF size = 0 THEN <<"0", "B">>
    ELSE IF size < Kilo THEN IntToStr(size) \o <<"B">>
    ELSE IF size < Kilo * Kilo THEN IntToStr(RoundDiv(size, Kilo)) \o <<"K", "B">>
    ELSE IF size < Kilo * Kilo * Kilo
         THEN IntToStr(RoundDiv(size, Kilo * Kilo)) \o <<"M", "B">>
    ELSE IntToStr(RoundDiv(size, Kilo * Kilo * Kilo)) \o <<"G", "B">>

\* f"{size / (1024*1024):.1f}"
FormatSizeMb(size) ==
    LET tenths == RoundDiv(size * 10, Kilo * Kilo)
    IN IntToStr(tenths \div 10) \o <<".">> \o <<DigitChar(tenths % 10)>>

\* A first loop that replaces nothing.
ReplaceInvalidNone(s) == s

\* _clean_filename, first loop: every invalid character becomes '_'.
ReplaceInvalid(s) == [i \in 1 .. Len(s) |-> IF s[i] \in InvalidChars THEN "_" ELSE s[i]]

\* _clean_filename, while loop: replace '__' by '_' until none is left.
RECURSIVE CollapseUnderscores(_)
CollapseUnderscores(s) ==
    IF Contains(s, <<"_", "_">>)
    THEN CollapseUnderscores(Replace(s, <<"_", "_">>, <<"_">>))
    ELSE s

RECURSIVE LStrip(_, _)
LStrip(s, c) == IF s # <<>> /\ Head(s) = c THEN LStrip(Tail(s), c) ELSE s

RECURSIVE RStrip(_, _)
RStrip(s, c) ==
    IF s # <<>> /\ s[Len(s)] = c THEN RStrip(SubSeq(s, 1, Len(s) - 1), c) ELSE s

\* A sanitizer that strips the underscores before it replaces the invalid
\* characters.
CleanFilenameStripFirst(filename) ==
    LET cleaned == CollapseUnderscores(ReplaceInvalid(LStrip(RStrip(filename, "_"), "_")))
    IN IF cleaned = <<>> THEN TokRenamedFile ELSE cleaned

\* _clean_filename
CleanFilename(filename) ==
    LET cleaned == RStrip(LStrip(CollapseUnderscores(ReplaceInvalid(filename)), "_"), "_")
    IN IF cleaned = <<>> THEN TokRenamedFile ELSE cleaned

\* The keys of the render context, in the order apply_pattern inserts them.
ContextKeys ==
    << <<"d", "a", "t", "e">>,
       <<"t", "i", "m", "e">>,
       <<"d", "a", "t", "e", "t", "i", "m", "e">>,
       <<"y", "e", "a", "r">>,
       <<"m", "o", "n", "t", "h">>,
       <<"d", "a", "y">>,
       <<"h", "o", "u", "r">>,
       <<"m", "i", "n", "u", "t", "e">>,
       <<"s", "e", "c", "o", "n", "d">>,
       <<"o", "r", "i", "g", "i", "n", "a", "l">>,
       <<"o", "r", "i", "g", "i", "n", "a", "l", "_", "f", "u", "l", "l">>,
       <<"e", "x", "t">>,
       <<"u", "s", "e", "r">>,
       <<"u", "s", "e", "r", "n", "a", "m", "e">>,
       <<"u", "s", "e", "r", "_", "i", "d">>,
       <<"s", "i", "z", "e">>,
       <<"s", "i", "z", "e", "_", "m", "b">>,
       <<"t", "y", "p", "e">>,
       <<"t", "i", "m", "e", "s", "t", "a", "m", "p">>,
       <<"u", "u", "i", "d">>,
       <<"r", "a", "n", "d", "o", "m">> >>

TokRandomOpen == <<"{", "r", "a", "n", "d", "o", "m">>
TokNoneText == <<"N", "o", "n", "e">>

\* str(value) of a context value: None prints as 'None'.
Str(v) == IF v = NoneStr THEN TokNoneText ELSE v

\* re.findall(r'\{counter(?::([^}]+))?\}', pattern): the group of every match,
\* '' for a match without the group.
RECURSIVE FindCounterSpecs(_, _)
FindCounterSpecs(p, i) ==
    IF i > Len(p) THEN <<>>
    ELSE IF ~StartsWithAt(p, i, TokCounterOpen) THEN FindCounterSpecs(p, i + 1)
    ELSE LET j == i + Len(TokCounterOpen)
             k == IndexFrom(p, RB, j)
         IN IF j <= Len(p) /\ p[j] = RB
            THEN <<(<<>>)>> \o FindCounterSpecs(p, j + 1)
            ELSE IF j <= Len(p) /\ p[j] = ":" /\ k > j + 1
            THEN <<SubSeq(p, j + 1, k - 1)>> \o FindCounterSpecs(p, k + 1)
            ELSE FindCounterSpecs(p, i + 1)

\* re.findall(r'\{random(?::(\d+))?\}', pattern)
RECURSIVE FindRandomSpecs(_, _)
FindRandomSpecs(p, i) ==
    IF i > Len(p) THEN <<>>
    ELSE IF ~StartsWithAt(p, i, TokRandomOpen) THEN FindRandomSpecs(p, i + 1)
    ELSE LET j == i + Len(TokRandomOpen)
             k == IndexFrom(p, RB, j)
         IN IF j <= Len(p) /\ p[j] = RB
            THEN <<(<<>>)>> \o FindRandomSpecs(p, j + 1)
            ELSE IF /\ j <= Len(p) /\ p[j] = ":" /\ k > j + 1
                    /\ \A m \in (j + 1) .. (k - 1) : p[m] \in Digits
            THEN <<SubSeq(p, j + 1, k - 1)>> \o FindRandomSpecs(p, k + 1)
            ELSE FindRandomSpecs(p, i + 1)

\* The one-character format specs of an int that Python accepts and prints as
\* the plain decimal number.
PlainSpecChars == {"d", "n", "g", "0", "<", ">", "^", "=", "-", "#", ",", "_"}
\* Letters that are no presentation type of an int: f"{v:{c}}" raises ValueError.
BadSpecChars == {"s", "z", "q", "k", "y", "Z"}
WidthSpecChars == {"1", "2", "3", "4", "5", "6", "7", "8", "9"}

DigitValue(c) == CHOOSE d \in 0 .. 9 : DigitChar(d) = c

RECURSIVE Spaces(_)
Spaces(n) == IF n <= 0 THEN <<>> ELSE <<" ">> \o Spaces(n - 1)

\* f"{v:{c}}" for a one-character spec c that does not raise.
FormatInt(v, c) ==
    CASE c \in PlainSpecChars -> IntToStr(v)
      [] c \in WidthSpecChars -> Spaces(DigitValue(c) - Len(IntToStr(v))) \o IntToStr(v)
      [] c = "+" -> <<"+">> \o IntToStr(v)
      [] c = " " -> <<" ">> \o IntToStr(v)

\* One iteration of the loop of _process_counters (lines 145-153) for the
\* findall group format_spec and the counter value read: format_spec[0] raises
\* IndexError for the empty group (ok = FALSE: the except of line 157 returns
\* the pattern as it is); otherwise the token built from the FIRST character
\* of the group is replaced.
CounterIteration(pattern, format_spec, counter_value) ==
    IF format_spec = <<>>
    THEN [ok |-> FALSE, pattern |-> pattern]
    ELSE LET c == format_spec[1]
             tok == TokCounterOpen \o <<":", c, RB>>
         IN [ok |-> TRUE,
             pattern |-> IF c \in BadSpecChars
                         THEN Replace(pattern, tok, IntToStr(counter_value))
                         ELSE Replace(pattern, tok, FormatInt(counter_value, c))]

\* _generate_random_number(length): the first `length` digits of the stream e
\* drawn for this render (e[1], e[2], e[1], ...).
GenerateRandomNumber(length, e) ==
    [i \in 1 .. length |-> IF i % 2 = 1 THEN e[1] ELSE e[2]]

\* _process_random_variables: the loop over the findall groups; the empty
\* group of a plain {random} raises IndexError and the pattern is returned as
\* rewritten so far.
RECURSIVE RandomLoop(_, _, _)
RandomLoop(pattern, specs, e) ==
    IF specs = <<>> THEN pattern
    ELSE IF Head(specs) = <<>> THEN pattern
    ELSE LET c == Head(specs)[1]
             tok == TokRandomOpen \o <<":", c, RB>>
         IN RandomLoop(Replace(pattern, tok, GenerateRandomNumber(DigitValue(c), e)),
                       Tail(specs), e)

ProcessRandomVariables(pattern, e) == RandomLoop(pattern, FindRandomSpecs(pattern, 1), e)

\* _substitute_variables: for each key of the context, in order, replace
\* '{key}' by str(value).
\* The loop from key i on goes straight to the next key whose token occurs in
\* the pattern: the iterations before it replace nothing.
RECURSIVE SubstituteFrom(_, _, _)
SubstituteFrom(pattern, context, i) ==
    LET hits == {j \in i .. Len(ContextKeys) :
                    Contains(pattern, <<LB>> \o ContextKeys[j] \o <<RB>>)}
    IN IF hits = {} THEN pattern
       ELSE LET j == CHOOSE m \in hits : \A n \in hits : m <= n
            IN SubstituteFrom(Replace(pattern, <<LB>> \o ContextKeys[j] \o <<RB>>,
                                      Str(context[j])),
                              context, j + 1)

SubstituteVariables(pattern, context) == SubstituteFrom(pattern, context, 1)

\* The context of lines 80-102 as the sequence of values of ContextKeys, for a
\* file descriptor with a numeric size.  e and uuid are this render's entropy.
BuildContext(file_info, user_name, username, user_id, e, uuid) ==
    << NowDate, NowTime, NowDate \o <<"_">> \o NowTime,
       SubSeq(NowDate, 1, 4), SubSeq(NowDate, 5, 6), SubSeq(NowDate, 7, 8),
       SubSeq(NowTime, 1, 2), SubSeq(NowTime, 3, 4), SubSeq(NowTime, 5, 6),
       RemoveExtension(file_info.name), file_info.name, GetExtension(file_info.name),
       user_name,
       IF username = NoneStr \/ username = <<>> THEN user_name ELSE username,
       IntToStr(user_id),
       FormatSize(file_info.size), FormatSizeMb(file_info.size),
       file_info.type, NowTimestamp, uuid, GenerateRandomNumber(6, e) >>

\* Lines 111-117: random substitution, context substitution and sanitizer,
\* applied to the pattern _process_counters returned.
SanitizedName(pattern_with_counters, context, e) ==
    CleanFilename(SubstituteVariables(ProcessRandomVariables(pattern_with_counters, e),
                                      context))

\* A render that leaves the sanitized name as it is.
FinishNameWithoutExtension(pattern_with_counters, file_info, context, e) ==
    SanitizedName(pattern_with_counters, context, e)

\* Lines 111-121: the sanitized name and the extension guarantee.
FinishName(pattern_with_counters, file_info, context, e) ==
    LET file_ext == GetExtension(file_info.name)
        result == SanitizedName(pattern_with_counters, context, e)
    IN IF ~EndsWith(result, file_ext) /\ file_ext # <<>>
       THEN result \o file_ext ELSE result

\* Lines 131-134: the fallback name of the except branch.
FallbackName(file_info) ==
    RemoveExtension(file_info.name) \o <<"_">> \o NowDate \o <<"_">> \o NowTime
        \o GetExtension(file_info.name)

(***************************************************************************)
(* validate_pattern.                                                       *)
(***************************************************************************)
\* The keys of self.variables (lines 21-48).
Variables ==
    {<<"c", "o", "u", "n", "t", "e", "r">>,
     <<"c", "o", "u", "n", "t", "e", "r", ":", "0", "2", "d">>,
     <<"c", "o", "u", "n", "t", "e", "r", ":", "0", "3", "d">>,
     <<"d", "a", "t", "e">>,
     <<"t", "i", "m", "e">>,
     <<"d", "a", "t", "e", "t", "i", "m", "e">>,
     <<"y", "e", "a", "r">>,
     <<"m", "o", "n", "t", "h">>,
     <<"d", "a", "y">>,
     <<"h", "o", "u", "r">>,
     <<"m", "i", "n", "u", "t", "e">>,
     <<"s", "e", "c", "o", "n", "d">>,
     <<"o", "r", "i", "g", "i", "n", "a", "l">>,
     <<"o", "r", "i", "g", "i", "n", "a", "l", "_", "f", "u", "l", "l">>,
     <<"e", "x", "t">>,
     <<"u", "s", "e", "r">>,
     <<"u", "s", "e", "r", "n", "a", "m", "e">>,
     <<"u", "s", "e", "r", "_", "i", "d">>,
     <<"s", "i", "z", "e">>,
     <<"s", "i", "z", "e", "_", "m", "b">>,
     <<"t", "y", "p", "e">>,
     <<"r", "a", "n", "d", "o", "m">>,
     <<"r", "a", "n", "d", "o", "m", ":", "4">>,
     <<"r", "a", "n", "d", "o", "m", ":", "8">>,
     <<"u", "u", "i", "d">>,
     <<"t", "i", "m", "e", "s", "t", "a", "m", "p">>}

\* The characters str.strip() removes.
Whitespace == {" ", "\t", "\n"}

\* not pattern or not pattern.strip() (line 299)
IsBlank(pattern) == \A i \in 1 .. Len(pattern) : pattern[i] \in Whitespace

\* pattern.count(c) for a character c (lines 303-304)
CountChar(pattern, c) == Cardinality({i \in 1 .. Len(pattern) : pattern[i] = c})

\* re.findall(r'\{([^}]+)\}', pattern): the group of every match, left to
\* right and without overlap (line 310).
RECURSIVE FindVariables(_, _)
FindVariables(p, i) ==
    IF i > Len(p) THEN <<>>
    ELSE IF p[i] # LB THEN FindVariables(p, i + 1)
    ELSE LET j == IndexFrom(p, RB, i + 1)
         IN IF j = 0 THEN <<>>
            ELSE IF j = i + 1 THEN FindVariables(p, i + 1)
            ELSE <<SubSeq(p, i + 1, j - 1)>> \o FindVariables(p, j + 1)

\* var.split(':')[0] (line 314)
BaseVar(var) ==
    LET k == IndexFrom(var, ":", 1)
    IN IF k = 0 THEN var ELSE SubSeq(var, 1, k - 1)

\* The test of lines 316-318 on one variable.
IsKnownVariable(var) ==
    \/ BaseVar(var) \in Variables
    \/ BaseVar(var) = <<"c", "o", "u", "n", "t", "e", "r">>
    \/ BaseVar(var) = <<"r", "a", "n", "d", "o", "m">>

\* The messages of validate_pattern: a fixed text and, for an unknown
\* variable, the '{var}' that follows it (line 319).
MsgEmpty == <<"Pattern cannot be empty", <<>>>>
MsgBraces == <<"Unmatched braces in pattern", <<>>>>
MsgInvalidName == <<"Pattern would result in invalid filename", <<>>>>
MsgValid == <<"Valid pattern", <<>>>>
MsgUnknown(var) == <<"Unknown variable: ", <<LB>> \o var \o <<RB>>>>

\* The loop of lines 313-319: the first unknown variable, <<>> when all are
\* known.
RECURSIVE FirstUnknown(_)
FirstUnknown(variables_in_pattern) ==
    IF variables_in_pattern = <<>> THEN <<>>
    ELSE IF ~IsKnownVariable(Head(variables_in_pattern))
         THEN <<Head(variables_in_pattern)>>
         ELSE FirstUnknown(Tail(variables_in_pattern))

\* A validator that looks at the variables before it counts the braces.
ValidatePatternVariablesFirst(pattern) ==
    IF IsBlank(pattern) THEN [ok |-> FALSE, message |-> MsgEmpty]
    ELSE LET unknown == FirstUnknown(FindVariables(pattern, 1))
         IN IF unknown # <<>>
            THEN [ok |-> FALSE, message |-> MsgUnknown(unknown[1])]
            ELSE IF CountChar(pattern, LB) # CountChar(pattern, RB)
                 THEN [ok |-> FALSE, message |-> MsgBraces]
                 ELSE [ok |-> TRUE, message |-> MsgValid]

\* validate_pattern (lines 296-330): the pair (is_valid, message).
ValidatePattern(pattern) ==
    IF IsBlank(pattern) THEN [ok |-> FALSE, message |-> MsgEmpty]
    ELSE IF CountChar(pattern, LB) # CountChar(pattern, RB)
         THEN [ok |-> FALSE, message |-> MsgBraces]
    ELSE LET unknown == FirstUnknown(FindVariables(pattern, 1))
         IN IF unknown # <<>>
            THEN [ok |-> FALSE, message |-> MsgUnknown(unknown[1])]
            ELSE IF CleanFilename(pattern) = <<>>
                 THEN [ok |-> FALSE, message |-> MsgInvalidName]
                 ELSE [ok |-> TRUE, message |-> MsgValid]

(***************************************************************************)
(* The inputs the operations are called with.                              *)
(***************************************************************************)
PatPlain == <<"{", "c", "o", "u", "n", "t", "e", "r", "}", "_", "{", "o", "r", "i", "g", "i", "n", "a", "l", "}">>
PatD == <<"{", "c", "o", "u", "n", "t", "e", "r", ":", "d", "}", "_", "{", "o", "r", "i", "g", "i", "n", "a", "l", "}">>
\* Two counter tokens with different specs: '{counter:d}{counter:3}'.
PatTwo == <<"{", "c", "o", "u", "n", "t", "e", "r", ":", "d", "}", "{", "c", "o", "u", "n", "t", "e", "r", ":", "3", "}">>
Patterns == {PatPlain, PatD, PatTwo}

\* The patterns and files of the examples of the renderer.
PatOriginal == <<"{", "o", "r", "i", "g", "i", "n", "a", "l", "}">>
PatOriginalDatetime == <<"{", "o", "r", "i", "g", "i", "n", "a", "l", "}", "_", "{", "d", "a", "t", "e", "t", "i", "m", "e", "}">>
PatPadded == <<"{", "c", "o", "u", "n", "t", "e", "r", ":", "0", "3", "d", "}", "_", "{", "o", "r", "i", "g", "i", "n", "a", "l", "}", ".", "{", "e", "x", "t", "}">>
PatBadSpec == <<"{", "c", "o", "u", "n", "t", "e", "r", ":", "z", "z", "}", "_", "{", "c", "o", "u", "n", "t", "e", "r", ":", "d", "}">>
PatNested == <<"{", "r", "a", "n", "d", "o", "m", ":", "{", "c", "o", "u", "n", "t", "e", "r", ":", "d", "}", "}">>
RenderPatterns == {PatOriginal, PatOriginalDatetime, PatPadded, PatBadSpec, PatNested}
FileMovie == [name |-> <<"m", "o", "v", "i", "e", ".", "m", "p", "4">>, size |-> 1, type |-> <<"v">>]
FileReport == [name |-> <<"r", "e", "p", "o", "r", "t", ".", "p", "d", "f">>, size |-> 1, type |-> <<"d">>]
FileNoSize == [name |-> <<"m", "o", "v", "i", "e", ".", "m", "p", "4">>, size |-> NoneSize, type |-> <<"v">>]
RenderFiles == {FileMovie, FileReport, FileNoSize}

NameMovie == <<"m", ".", "m", "p", "4">>
\* A file descriptor whose size is None makes _format_size raise (line 96).
FileInfos == {[name |-> NameMovie, size |-> 1, type |-> <<"v">>],
              [name |-> NameMovie, size |-> NoneSize, type |-> <<"v">>]}
\* The default sample_file_info of get_pattern_preview (lines 336-340).
SampleFile == [name |-> <<"s", "a", "m", "p", "l", "e", "_", "v", "i", "d", "e", "o", ".", "m", "p", "4">>, size |-> 150 * Kilo * Kilo, type |-> <<"v", "i", "d", "e", "o">>]
NoFile == [name |-> <<>>, size |-> 0, type |-> <<>>]

\* The texts validate_pattern and _clean_filename are called with: every
\* concatenation of at most MaxPieces pieces, and the examples.
Pieces == {<<"{">>, <<"}">>, <<":">>, <<"_">>, <<"/">>, <<" ">>, <<"a">>,
           <<"e", "x", "t">>, <<"{", "e", "x", "t", "}">>, <<"{", "n", "o", "p", "e", "}">>,
           <<"{", "c", "o", "u", "n", "t", "e", "r", ":", "z", "z", "}">>, <<"r", "e", "n", "a", "m", "e", "d", "_", "f", "i", "l", "e">>}
RECURSIVE TextsOf(_)
TextsOf(n) ==
    IF n = 0 THEN {<<>>}
    ELSE LET shorter == TextsOf(n - 1)
         IN shorter \cup {x \o piece : x \in shorter, piece \in Pieces}
PatCounterOriginalExt == <<"{", "c", "o", "u", "n", "t", "e", "r", "}", "_", "{", "o", "r", "i", "g", "i", "n", "a", "l", "}", ".", "{", "e", "x", "t", "}">>
TextFoo == <<"{", "f", "o", "o">>
TextNopeVar == <<"{", "n", "o", "p", "e", "}">>
TextFiller == <<"a", "/", "/", "b", ":", ":", "c">>
TextRun == <<"a", "/", "/", "/", "b">>
ExampleTexts == {PatCounterOriginalExt, TextFoo, TextNopeVar, TextFiller, TextRun}
Texts == TextsOf(MaxPieces) \cup ExampleTexts

\* Templates given to save_user_pattern, and texts a user sends to the bot.
TextExt == <<"{", "e", "x", "t", "}">>
TextNamedExt == <<"n", " ", "{", "e", "x", "t", "}">>
TextNamedNope == <<"n", " ", "{", "n", "o", "p", "e", "}">>
TextNamedSpaced == <<" ", "n", " ", " ", "{", "e", "x", "t", "}", " ">>
TextBlank == <<" ", " ">>
SaveTemplates == {TextExt, TextNopeVar, TextFoo, <<>>, PatCounterOriginalExt}
SaidTexts == {TextExt, TextNamedExt, TextNamedNope, TextNamedSpaced, TextBlank,
              TextNopeVar, TextFoo}
PatternNames == {<<"n">>}

\* Patterns and files of the renders of the static context and of the random
\* tokens: widths of one and of two digits, a plain {random} before a width,
\* the user's names, a variable with a spec; a file name whose extension holds
\* ':' and one that holds the text of a placeholder.
PatRandom4 == <<"{", "r", "a", "n", "d", "o", "m", ":", "4", "}">>
PatRandomWide == <<"{", "r", "a", "n", "d", "o", "m", ":", "1", "2", "}">>
PatRandomAfterPlain == <<"{", "r", "a", "n", "d", "o", "m", "}", "_", "{", "r", "a", "n", "d", "o", "m", ":", "4", "}">>
PatUser == <<"{", "u", "s", "e", "r", "}", "-", "{", "u", "s", "e", "r", "n", "a", "m", "e", "}">>
PatDateSpec == <<"{", "d", "a", "t", "e", ":", "%", "Y", "}">>
ExpandPatterns == {PatRandom4, PatRandomWide, PatRandomAfterPlain, PatUser, PatDateSpec,
                   PatOriginal}
FileBadExt == [name |-> <<"a", ".", "b", ":", "c">>, size |-> 1, type |-> <<"d">>]
FileBraces == [name |-> <<"{", "u", "s", "e", "r", "_", "i", "d", "}", ".", "m", "p", "4">>, size |-> 1, type |-> <<"v">>]
FileBadExtNoSize == [FileBadExt EXCEPT !.size = NoneSize]
ExpandFiles == {FileMovie, FileBadExt, FileBraces, FileBadExtNoSize}
TokHandle == <<"a", "l">>

\* Keys and values of preferences that are no counters.
KeyLang == <<"lang", 0>>
KeyTheme == <<"theme", 0>>
PreferenceKeys == {KeyLang, KeyTheme}
PreferenceValues == {1, 2}

FirstNames == {<<"A", "l">>}
Usernames == {NoneStr}

(***************************************************************************)
(* State.                                                                  *)
(***************************************************************************)
VARIABLES
    hashseed,       \* the seed of hash(str) in this process run
    user_counters,  \* PatternManager.user_counters: cache key -> counter value
    users,          \* the users table of the database file: user id -> row
    lock,           \* Database.lock (threading.Lock): its holder, or NoThread
    th,             \* per thread: the call it is in, its position and locals
    rename_patterns,\* the rename_patterns table of the database file: its rows
    user_states     \* BotHandlers.user_states: user id -> what the bot awaits

vars == <<hashseed, user_counters, users, lock, th, rename_patterns, user_states>>

\* Finite maps (dicts).
Has(m, k) == k \in DOMAIN m
Put(m, k, v) == [x \in (DOMAIN m) \cup {k} |-> IF x = k THEN v ELSE m[x]]
Without(m, K) == [x \in (DOMAIN m) \ K |-> m[x]]
EmptyMap == <<>>

\* hash(pattern): a function of the process's seed and of the text.
Hash(seed, pattern) == <<seed, pattern>>
\* f"{user_id}_{hash(pattern)}" (lines 197, 213)
CacheKey(user_id, pattern) == <<user_id, Hash(hashseed, pattern)>>
\* f'counter_{hash(pattern)}' (lines 201, 218)
PrefKey(pattern) == <<"counter", Hash(hashseed, pattern)>>
\* key.startswith('counter_') (line 536)
IsCounterPref(key) == key[1] = "counter"
\* key.startswith(f"{user_id}_") (line 525)
IsCacheKeyOf(key, user_id) == key[1] = user_id

NoRow == [exists |-> FALSE, username |-> NoneStr, first_name |-> NoneStr,
          preferences |-> EmptyMap]

\* Database.get_user_preference after its get_user: the stored value or the
\* default.
PreferenceOf(row, key, default) ==
    IF row.exists /\ Has(row.preferences, key) THEN row.preferences[key] ELSE default

Idle == [pc |-> "idle", op |-> "none", user_id |-> 0, pattern |-> <<>>,
         file_info |-> NoFile, user_name |-> <<>>, username |-> <<>>, work |-> <<>>, specs |-> <<>>, counter_value |-> 0,
         gc_pattern |-> <<>>, gc_ret |-> "none", gc_val |-> 0, got |-> 0,
         current_value |-> 0, result |-> <<>>, failed |-> FALSE,
         fell_back |-> FALSE, incremented |-> FALSE, db_read |-> FALSE,
         original_counters |-> EmptyMap, preferences |-> EmptyMap,
         cached_at_call |-> 0, stored_at_call |-> 0,
         valid |-> FALSE, message |-> <<"", <<>>>>, again |-> FALSE,
         after_randoms |-> <<>>, cleaned |-> <<>>,
         pattern_name |-> <<>>, success |-> FALSE, reply |-> "none",
         outer |-> "none",
         pref_key |-> <<>>, pref_value |-> 0, during_reset |-> FALSE]

\* The database file outlives the process.  The preferences column a process
\* finds when it starts holds no counters, or a counter of the pattern PatTwo
\* keyed by the hash of a run whose seed was 0.
InitPreferences ==
    {EmptyMap} \cup
    {Put(EmptyMap, <<"counter", Hash(0, PatTwo)>>, v) : v \in 2 .. MaxStored}

InitRows ==
    {NoRow} \cup
    {[exists |-> TRUE, username |-> un, first_name |-> fn, preferences |-> pr] :
        un \in Usernames, fn \in FirstNames, pr \in InitPreferences}

\* The first process run has seed 0; every later run draws its own.
Init ==
    /\ hashseed = 0
    /\ user_counters = EmptyMap
    /\ users \in [Users -> InitRows]
    /\ lock = NoThread
    /\ th = [t \in Threads |-> Idle]
    /\ rename_patterns = {}
    /\ user_states = [u \in Users |-> "none"]

\* What the thread's call sees of the counter of (user_id, pattern) when the
\* call starts: the cached value (0: not cached) and the stored one (0: none).
\* For a reset: how many keys of the user the cache and the row hold.
AtCall(r, user_id, pattern) ==
    [r EXCEPT !.user_id = user_id, !.pattern = pattern,
              !.cached_at_call = IF Has(user_counters, CacheKey(user_id, pattern))
                                 THEN user_counters[CacheKey(user_id, pattern)] ELSE 0,
              !.stored_at_call = PreferenceOf(users[user_id], PrefKey(pattern), 0)]

(***************************************************************************)
(* apply_pattern and _process_counters.                                    *)
(***************************************************************************)
\* Where apply_pattern returns to: the finally of get_pattern_preview, or the
\* caller.
AfterApply(r) ==
    IF r.op = "preview" THEN [r EXCEPT !.pc = "pv_restore"]
    ELSE [r EXCEPT !.pc = "ap_return"]

\* Where _increment_counter returns to: line 126 of apply_pattern.
AfterIncrement(r) == AfterApply(r)

\* The head of the loop of _process_counters (line 142).  With groups left,
\* the next iteration calls _get_counter(user_id, pattern) with the pattern
\* variable as rewritten so far.  With none left (or after the except of line
\* 157), lines 111-121 compute the name and line 124 calls
\* _increment_counter(user_id, pattern) with the pattern of the call.
EnterLoop(r, e, uuid) ==
    IF r.specs # <<>>
    THEN [r EXCEPT !.gc_pattern = r.work, !.gc_ret = "loop", !.pc = "gc_check"]
    ELSE \* The entropy of the context (line 100-101) is drawn here, where the
         \* context is first read; it is local to the call until then.
         [r EXCEPT !.result = FinishName(r.work, r.file_info,
                                BuildContext(r.file_info, r.user_name, r.username,
                                             r.user_id, e, uuid), e),
                   !.after_randoms = ProcessRandomVariables(r.work, e),
                   !.cleaned = SanitizedName(r.work,
                                   BuildContext(r.file_info, r.user_name, r.username,
                                                r.user_id, e, uuid), e),
                   !.gc_pattern = r.pattern, !.gc_ret = "inc", !.pc = "gc_check"]

\* The except branch of apply_pattern (lines 128-134).
ApplyPatternExcept(r) ==
    AfterApply([r EXCEPT !.result = FallbackName(r.file_info), !.fell_back = TRUE])

\* user.get('first_name', 'User') if user else 'User' (line 70)
UserNameOf(row) == IF row.exists THEN row.first_name ELSE TokUserDefault
\* user.get('username', '') if user else '' (line 71)
UsernameOf(row) == IF row.exists THEN row.username ELSE <<>>

\* apply_pattern from the return of db.get_user (line 69) to the first call
\* of _get_counter: building the context raises for a size that is no number.
ApplyPatternAfterGetUser(r, row, e, uuid) ==
    IF r.file_info.size = NoneSize
    THEN ApplyPatternExcept(r)
    ELSE EnterLoop([r EXCEPT !.user_name = UserNameOf(row),
                             !.username = UsernameOf(row),
                             !.work = r.pattern,
                             !.specs = FindCounterSpecs(r.pattern, 1)],
                   e, uuid)

\* The body of one loop iteration of _process_counters after its
\* _get_counter returned v, up to the next call.
LoopAfterGetCounter(r, v, e, uuid) ==
    LET it == CounterIteration(r.work, Head(r.specs), v)
    IN EnterLoop([r EXCEPT !.counter_value = v,
                           !.work = it.pattern,
                           !.specs = IF it.ok THEN Tail(r.specs) ELSE <<>>,
                           !.failed = r.failed \/ ~it.ok],
                 e, uuid)

(***************************************************************************)
(* Actions.  Each is one step of one thread; a step holds at most one      *)
(* access to the cache or one database call.                               *)
(***************************************************************************)
Entropy == RandomDigitChoices \X RandomDigitChoices

\* The calls a specification lets the callers make: one call at a time or
\* concurrent calls, and the users, patterns and hash seeds they range over.
FullScope == [solo |-> FALSE, users |-> Users,
              patterns |-> Patterns \cup RenderPatterns, seeds |-> Seeds,
              files |-> FileInfos \cup RenderFiles,
              samples |-> FileInfos \cup RenderFiles \cup {SampleFile},
              texts |-> Texts, templates |-> SaveTemplates, said |-> SaidTexts,
              names |-> PatternNames, keys |-> PreferenceKeys,
              values |-> PreferenceValues]
SeqScope == [FullScope EXCEPT !.solo = TRUE, !.patterns = {PatPlain, PatTwo},
                              !.files = FileInfos,
                              !.samples = FileInfos \cup {SampleFile}]
RenderScope == [solo |-> TRUE, users |-> {1}, patterns |-> RenderPatterns, seeds |-> {0},
                files |-> RenderFiles, samples |-> {SampleFile, FileNoSize}]
ConcScope == [solo |-> FALSE, users |-> {1}, patterns |-> {PatD}, seeds |-> {0},
              files |-> FileInfos, samples |-> FileInfos]

\* Thread t is free to start a call.
MayCall(t, sc) ==
    /\ th[t].pc = "idle"
    /\ sc.solo => \A o \in Threads \ {t} : th[o].pc = "idle"

\* `with self.lock` of a threading.Lock: only a free lock can be taken, also
\* by the thread that holds it.
CanAcquire(t) == lock = NoThread

\* A caller starts apply_pattern(pattern, file_info, user_id).
CallRender(t, sc) ==
    /\ MayCall(t, sc)
    /\ \E u \in sc.users, p \in sc.patterns, f \in sc.files :
          th' = [th EXCEPT ![t] = [AtCall(Idle, u, p) EXCEPT
                                      !.op = "render", !.file_info = f,
                                      !.pc = "ap_get_user"]]
    /\ UNCHANGED <<hashseed, user_counters, users, lock, rename_patterns, user_states>>

\* get_pattern_preview up to its call of apply_pattern: the default sample
\* file and the copy of the cache (lines 335-343).
CallPreview(t, sc) ==
    /\ MayCall(t, sc)
    /\ \E u \in sc.users, p \in sc.patterns, f \in sc.samples :
          th' = [th EXCEPT ![t] = [AtCall(Idle, u, p) EXCEPT
                                      !.op = "preview", !.file_info = f,
                                      !.original_counters = user_counters,
                                      !.pc = "ap_get_user"]]
    /\ UNCHANGED <<hashseed, user_counters, users, lock, rename_patterns, user_states>>

\* A caller starts _get_counter(user_id, pattern).
CallGetCounter(t, sc) ==
    /\ MayCall(t, sc)
    /\ \E u \in sc.users, p \in sc.patterns :
          th' = [th EXCEPT ![t] = [AtCall(Idle, u, p) EXCEPT
                                      !.op = "get", !.gc_pattern = p,
                                      !.gc_ret = "get", !.pc = "gc_check"]]
    /\ UNCHANGED <<hashseed, user_counters, users, lock, rename_patterns, user_states>>

\* reset_user_counters, lines 525-527: the user's keys leave the cache.
CallReset(t, sc) ==
    /\ MayCall(t, sc)
    /\ \E u \in sc.users :
          /\ th' = [th EXCEPT ![t] =
                      [Idle EXCEPT !.op = "reset", !.user_id = u,
                                   !.cached_at_call =
                                       Cardinality({k \in DOMAIN user_counters :
                                                       IsCacheKeyOf(k, u)}),
                                   !.stored_at_call =
                                       Cardinality({k \in DOMAIN users[u].preferences :
                                                       IsCounterPref(k)}),
                                   !.pc = "rs_get_user"]]
          /\ user_counters' = Without(user_counters,
                                      {k \in DOMAIN user_counters : IsCacheKeyOf(k, u)})
    /\ UNCHANGED <<hashseed, users, lock, rename_patterns, user_states>>

\* _get_counter, line 199: is the key in the cache?
GcCheck(t) ==
    /\ th[t].pc = "gc_check"
    /\ th' = [th EXCEPT ![t].pc =
                 IF Has(user_counters, CacheKey(th[t].user_id, th[t].gc_pattern))
                 THEN "gc_ret" ELSE "gc_db"]
    /\ UNCHANGED <<hashseed, user_counters, users, lock, rename_patterns, user_states>>

\* _get_counter, line 202: the value read from the database enters the cache.
GcPut(t) ==
    /\ th[t].pc = "gc_put"
    /\ user_counters' = Put(user_counters, CacheKey(th[t].user_id, th[t].gc_pattern),
                            th[t].gc_val)
    /\ th' = [th EXCEPT ![t].pc = "gc_ret"]
    /\ UNCHANGED <<hashseed, users, lock, rename_patterns, user_states>>

\* A _get_counter that returns the default whatever the cache holds.
GetCounterResultDefault(cache, key) == 1

\* The value _get_counter returns: line 204 reads the cache again; a key that
\* has left the cache raises KeyError and the except returns 1.
GetCounterResult(cache, key) == IF Has(cache, key) THEN cache[key] ELSE 1

\* _get_counter returns to its caller: the caller of the operation, line 214
\* of _increment_counter, or the loop of _process_counters.
GcRet(t) ==
    /\ th[t].pc = "gc_ret"
    /\ LET r == th[t]
           v == GetCounterResult(user_counters, CacheKey(r.user_id, r.gc_pattern))
       IN \E e \in Entropy, uuid \in UuidChoices :
             th' = [th EXCEPT ![t] =
                       CASE r.gc_ret = "get" -> [r EXCEPT !.got = v, !.pc = "gc_return"]
                         [] r.gc_ret = "inc" -> [r EXCEPT !.current_value = v,
                                                          !.pc = "inc_put"]
                         [] r.gc_ret = "loop" -> LoopAfterGetCounter(r, v, e, uuid)]
    /\ UNCHANGED <<hashseed, user_counters, users, lock, rename_patterns, user_states>>

\* _increment_counter, lines 215-217: current + 1 enters the cache.
IncPut(t) ==
    /\ th[t].pc = "inc_put"
    /\ user_counters' = Put(user_counters, CacheKey(th[t].user_id, th[t].pattern),
                            th[t].current_value + 1)
    /\ th' = [th EXCEPT ![t].incremented = TRUE, ![t].pc = "sp_acquire"]
    /\ UNCHANGED <<hashseed, users, lock, rename_patterns, user_states>>

\* set_user_preference, line 227: `with self.lock`.
SpAcquire(t) ==
    /\ th[t].pc = "sp_acquire"
    /\ CanAcquire(t)
    /\ lock' = t
    /\ th' = [th EXCEPT ![t].pc = "sp_get_user"]
    /\ UNCHANGED <<hashseed, user_counters, users, rename_patterns, user_states>>

\* set_user_preference from the return of its get_user (line 228) to its
\* return: the row's preferences with the key set, or no write without a row.
SetUserPreferenceRows(r, row) ==
    IF row.exists
    THEN [users EXCEPT ![r.user_id].preferences =
             IF r.op = "set_pref"
             THEN Put(row.preferences, r.pref_key, r.pref_value)
             ELSE Put(row.preferences, PrefKey(r.pattern), r.current_value + 1)]
    ELSE users

\* A reset that writes the preferences back as it read them.
ResetKeepingCounters(r, row) ==
    IF row.exists
    THEN [r EXCEPT !.preferences = row.preferences, !.pc = "rs_update"]
    ELSE [r EXCEPT !.pc = "rs_return"]

\* reset_user_counters after its get_user (lines 531-538): with a row, the
\* preferences without the counter keys are what line 544 will write.
ResetAfterGetUser(r, row) ==
    IF row.exists
    THEN [r EXCEPT !.preferences =
                      Without(row.preferences,
                              {k \in DOMAIN row.preferences : IsCounterPref(k)}),
                   !.pc = "rs_update"]
    ELSE [r EXCEPT !.pc = "rs_return"]

\* Database.get_user (lines 194-208): under the lock, the row of the user or
\* None.  The step goes on to the next shared access of the caller:
\* apply_pattern (line 69), get_user_preference in _get_counter (line 201),
\* reset_user_counters (line 530) or set_user_preference (line 228), which
\* calls it while holding the lock.
GetUser(t) ==
    /\ th[t].pc \in {"ap_get_user", "gc_db", "rs_get_user", "sp_get_user"}
    /\ CanAcquire(t)
    /\ LET r == th[t]
           row == users[r.user_id]
       IN /\ \E e \in Entropy, uuid \in UuidChoices :
                th' = [th EXCEPT ![t] =
                          CASE r.pc = "ap_get_user" ->
                                   ApplyPatternAfterGetUser(r, row, e, uuid)
                            [] r.pc = "gc_db" ->
                                   [r EXCEPT !.gc_val =
                                                PreferenceOf(row, PrefKey(r.gc_pattern), 1),
                                             !.db_read = TRUE,
                                             !.pc = "gc_put"]
                            [] r.pc = "rs_get_user" -> ResetAfterGetUser(r, row)
                            [] r.pc = "sp_get_user" ->
                                   IF r.op = "set_pref" THEN [r EXCEPT !.pc = "sp_return"]
                                   ELSE AfterIncrement(r)]
          /\ users' = IF r.pc = "sp_get_user" THEN SetUserPreferenceRows(r, row) ELSE users
    /\ lock' = NoThread
    /\ UNCHANGED <<hashseed, user_counters, rename_patterns, user_states>>

\* reset_user_counters, lines 541-546: the UPDATE of the preferences column.
RsUpdate(t) ==
    /\ th[t].pc = "rs_update"
    /\ CanAcquire(t)
    /\ users' = [users EXCEPT ![th[t].user_id].preferences = th[t].preferences]
    /\ th' = [th EXCEPT ![t].pc = "rs_return"]
    /\ UNCHANGED <<hashseed, user_counters, lock, rename_patterns, user_states>>

\* get_pattern_preview, line 350: the finally puts the copy back.
PvRestore(t) ==
    /\ th[t].pc = "pv_restore"
    /\ user_counters' = th[t].original_counters
    /\ th' = [th EXCEPT ![t].pc = "pv_return"]
    /\ UNCHANGED <<hashseed, users, lock, rename_patterns, user_states>>

\* The call returns to its caller.
Return(t) ==
    /\ th[t].pc \in {"ap_return", "pv_return", "rs_return", "gc_return",
                     "vp_return", "cf_return", "su_return", "st_return", "bh_return",
                     "sp_return"}
    /\ th' = [th EXCEPT ![t] = Idle]
    /\ UNCHANGED <<hashseed, user_counters, users, lock, rename_patterns, user_states>>

\* A caller runs validate_pattern(pattern): a pure function, one step.
CallValidate(t, sc) ==
    /\ MayCall(t, sc)
    /\ \E p \in sc.texts :
          th' = [th EXCEPT ![t] = [Idle EXCEPT
                                      !.op = "validate", !.pattern = p,
                                      !.valid = ValidatePattern(p).ok,
                                      !.message = ValidatePattern(p).message,
                                      !.pc = "vp_return"]]
    /\ UNCHANGED <<hashseed, user_counters, users, lock, rename_patterns, user_states>>

\* A caller runs _clean_filename(filename): a pure function, one step.
CallCleanFilename(t, sc) ==
    /\ MayCall(t, sc)
    /\ \E x \in sc.texts :
          th' = [th EXCEPT ![t] = [Idle EXCEPT
                                      !.op = "clean", !.pattern = x,
                                      !.result = CleanFilename(x),
                                      !.pc = "cf_return"]]
    /\ UNCHANGED <<hashseed, user_counters, users, lock, rename_patterns, user_states>>

\* The caller gives the name it got back to _clean_filename once more: work
\* keeps the first result.
CleanAgain(t) ==
    /\ th[t].pc = "cf_return"
    /\ ~th[t].again
    /\ th' = [th EXCEPT ![t].work = th[t].result,
                        ![t].result = CleanFilename(th[t].result),
                        ![t].again = TRUE]
    /\ UNCHANGED <<hashseed, user_counters, users, lock, rename_patterns, user_states>>

(***************************************************************************)
(* Saving patterns: save_user_pattern, save_pattern_from_text and the text *)
(* handler of the bot.  A row of rename_patterns is modelled by its user,  *)
(* name and template.                                                      *)
(***************************************************************************)
\* text.strip()
Strip(s) ==
    LET keep == {i \in 1 .. Len(s) : s[i] \notin Whitespace}
    IN IF keep = {} THEN <<>>
       ELSE SubSeq(s, CHOOSE i \in keep : \A j \in keep : i <= j,
                      CHOOSE i \in keep : \A j \in keep : i >= j)

\* Pattern_<mmdd>_<HHMM>, the name generated on line 474.
GeneratedName ==
    <<"P", "a", "t", "t", "e", "r", "n", "_">> \o SubSeq(NowDate, 5, 8) \o <<"_">> \o SubSeq(NowTime, 1, 4)

\* Lines 469-478: text.strip().split(' ', 1) and the name and the template
\* taken from the parts.
ParseSaveText(text) ==
    LET stripped == Strip(text)
        k == IndexFrom(stripped, " ", 1)
    IN IF k = 0
       THEN [pattern_name |-> GeneratedName, pattern_template |-> stripped]
       ELSE [pattern_name |-> SubSeq(stripped, 1, k - 1),
             pattern_template |-> SubSeq(stripped, k + 1, Len(stripped))]

\* A save_user_pattern that goes to the insert without asking the validator.
SaveUserPatternUnchecked(r) == [r EXCEPT !.valid = TRUE, !.pc = "arp"]

\* save_user_pattern, lines 368-374: the validator first; a rejected template
\* returns False, an accepted one goes to db.add_rename_pattern.
SaveUserPattern(r) ==
    LET v == ValidatePattern(r.pattern)
    IN IF v.ok
       THEN [r EXCEPT !.valid = TRUE, !.message = v.message, !.pc = "arp"]
       ELSE [r EXCEPT !.valid = FALSE, !.message = v.message, !.success = FALSE,
                      !.pc = "su_return"]

\* A caller starts save_user_pattern(user_id, pattern_name, pattern_template).
CallSaveUserPattern(t, sc) ==
    /\ MayCall(t, sc)
    /\ \E u \in sc.users, n \in sc.names, p \in sc.templates :
          th' = [th EXCEPT ![t] = SaveUserPattern([Idle EXCEPT
                                      !.op = "save", !.user_id = u,
                                      !.pattern_name = n, !.pattern = p])]
    /\ UNCHANGED <<hashseed, user_counters, users, lock, rename_patterns, user_states>>

\* save_pattern_from_text up to its call of save_user_pattern (lines 469-493):
\* the text is parsed and the template validated; a rejected template is
\* answered with the error and nothing else is done.
CallSavePatternFromText(t, sc) ==
    /\ MayCall(t, sc)
    /\ \E u \in sc.users, text \in sc.said :
          LET parts == ParseSaveText(text)
              r == [Idle EXCEPT !.op = "save_text", !.outer = "save_text",
                                !.user_id = u, !.work = text,
                                !.pattern_name = parts.pattern_name,
                                !.pattern = parts.pattern_template]
              v == ValidatePattern(parts.pattern_template)
          IN th' = [th EXCEPT ![t] =
                       IF v.ok THEN SaveUserPattern(r)
                       ELSE [r EXCEPT !.valid = FALSE, !.message = v.message,
                                      !.reply = "invalid_pattern", !.pc = "st_return"]]
    /\ UNCHANGED <<hashseed, user_counters, users, lock, rename_patterns, user_states>>

\* Database.add_rename_pattern (database.py lines 364-380): under the lock,
\* the INSERT; a failing statement is caught and reported as False.  The step
\* goes on to what the caller does with the answer: save_user_pattern returns
\* it (line 379); save_pattern_from_text answers a failure (lines 508-512) and
\* after a success calls get_pattern_preview(pattern_template, user_id) (line
\* 497), whose apply_pattern the steps of apply_pattern carry on.
AddRenamePattern(t) ==
    /\ th[t].pc = "arp"
    /\ CanAcquire(t)
    /\ LET r == th[t]
       IN \E inserted \in BOOLEAN :
             /\ rename_patterns' =
                    IF inserted
                    THEN rename_patterns \cup
                            {[user_id |-> r.user_id, pattern_name |-> r.pattern_name,
                              pattern_template |-> r.pattern]}
                    ELSE rename_patterns
             /\ th' = [th EXCEPT ![t] =
                          IF r.outer # "save_text"
                          THEN [r EXCEPT !.success = inserted, !.pc = "su_return"]
                          ELSE IF ~inserted
                          THEN [r EXCEPT !.success = FALSE, !.reply = "save_failed",
                                         !.pc = "st_return"]
                          ELSE [AtCall(r, r.user_id, r.pattern) EXCEPT
                                   !.success = TRUE, !.op = "preview",
                                   !.file_info = SampleFile,
                                   !.original_counters = user_counters,
                                   !.pc = "ap_get_user"]]
    /\ UNCHANGED <<hashseed, user_counters, users, lock, user_states>>

\* BotHandlers.auto_rename_command (handlers.py lines 655-704): the help text
\* is sent and the user's state becomes 'awaiting_pattern'.
AutoRenameCommand(t, sc) ==
    /\ MayCall(t, sc)
    /\ \E u \in sc.users :
          /\ th' = [th EXCEPT ![t] = [Idle EXCEPT !.op = "auto_rename", !.user_id = u,
                                                  !.reply = "auto_rename_help",
                                                  !.pc = "bh_return"]]
          /\ user_states' = [user_states EXCEPT ![u] = "awaiting_pattern"]
    /\ UNCHANGED <<hashseed, user_counters, users, lock, rename_patterns>>

\* BotHandlers.handle_text (handlers.py lines 1097-1130) for a user whose state
\* is 'awaiting_pattern' or who has none.  PatternManager has no method
\* set_user_pattern: line 1104 raises AttributeError, the except of line 1128
\* answers with the error, and lines 1105-1110 (the 'Pattern set' answer and
\* the del of the state) are not run.
HandleText(t, sc) ==
    /\ MayCall(t, sc)
    /\ \E u \in sc.users, text \in sc.said :
          th' = [th EXCEPT ![t] = [Idle EXCEPT
                                      !.op = "handle_text", !.user_id = u,
                                      !.pattern = text,
                                      !.valid = ValidatePattern(text).ok,
                                      !.reply = IF user_states[u] = "awaiting_pattern"
                                                THEN "error" ELSE "send_file_help",
                                      !.pc = "bh_return"]]
    /\ UNCHANGED <<hashseed, user_counters, users, lock, rename_patterns, user_states>>

\* A caller starts Database.set_user_preference(user_id, key, value) for a
\* key that is no counter key (database.py line 224).  during_reset records
\* that a reset_user_counters of the same user was running at that moment.
CallSetPreference(t, sc) ==
    /\ MayCall(t, sc)
    /\ \E u \in sc.users, k \in sc.keys, v \in sc.values :
          th' = [th EXCEPT ![t] = [Idle EXCEPT
                    !.op = "set_pref", !.user_id = u,
                    !.pref_key = k, !.pref_value = v,
                    !.during_reset =
                        \E o \in Threads \ {t} :
                            /\ th[o].op = "reset" /\ th[o].user_id = u
                            /\ th[o].pc \in {"rs_get_user", "rs_update"},
                    !.pc = "sp_acquire"]]
    /\ UNCHANGED <<hashseed, user_counters, users, lock, rename_patterns, user_states>>

\* Database.add_user (lines 179-192): INSERT OR REPLACE writes a new row, whose
\* preferences column takes the default '{}'.
AddUser(t, sc) ==
    /\ MayCall(t, sc)
    /\ CanAcquire(t)
    /\ \E u \in sc.users, un \in Usernames, fn \in FirstNames :
          users' = [users EXCEPT ![u] = [exists |-> TRUE, username |-> un,
                                         first_name |-> fn, preferences |-> EmptyMap]]
    /\ UNCHANGED <<hashseed, user_counters, lock, th, rename_patterns, user_states>>

\* The process ends and a new one starts on the same database file: a new
\* hash seed, an empty cache, a free lock, no call in progress, no user state.
Restart(sc) ==
    /\ hashseed' \in sc.seeds
    /\ user_counters' = EmptyMap
    /\ lock' = NoThread
    /\ th' = [t \in Threads |-> Idle]
    /\ user_states' = [u \in Users |-> "none"]
    /\ UNCHANGED <<users, rename_patterns>>

Step(t, sc) ==
    \/ CallRender(t, sc)
    \/ CallPreview(t, sc)
    \/ CallGetCounter(t, sc)
    \/ CallReset(t, sc)
    \/ AddUser(t, sc)
    \/ GcCheck(t)
    \/ GcPut(t)
    \/ GcRet(t)
    \/ IncPut(t)
    \/ SpAcquire(t)
    \/ GetUser(t)
    \/ RsUpdate(t)
    \/ PvRestore(t)
    \/ Return(t)

\* The calls of the pure functions.
PureStep(t, sc) ==
    \/ CallValidate(t, sc)
    \/ CallCleanFilename(t, sc)
    \/ CleanAgain(t)
    \/ Return(t)

\* The calls that save a pattern and the bot's handlers, with the steps of the
\* preview that save_pattern_from_text asks for.
SaveStep(t, sc) ==
    \/ CallSaveUserPattern(t, sc)
    \/ CallSavePatternFromText(t, sc)
    \/ AddRenamePattern(t)
    \/ AutoRenameCommand(t, sc)
    \/ HandleText(t, sc)
    \/ GcCheck(t)
    \/ GcPut(t)
    \/ GcRet(t)
    \/ IncPut(t)
    \/ SpAcquire(t)
    \/ GetUser(t)
    \/ Return(t)

\* reset_user_counters and set_user_preference.
ResetStep(t, sc) ==
    \/ CallReset(t, sc)
    \/ CallSetPreference(t, sc)
    \/ SpAcquire(t)
    \/ GetUser(t)
    \/ RsUpdate(t)
    \/ Return(t)

\* Threads run concurrently, over all inputs.
Next ==
    \/ \E t \in Threads : Step(t, FullScope) \/ PureStep(t, FullScope) \/ SaveStep(t, FullScope)
                             \/ ResetStep(t, FullScope)
    \/ Restart(FullScope)
Spec == Init /\ [][Next]_vars

\* Calls are made one after the other: at most one thread is inside a call.
SeqNext == (\E t \in Threads : Step(t, SeqScope)) \/ Restart(SeqScope)
SeqSpec == Init /\ [][SeqNext]_vars

\* Concurrent calls for one user and one pattern, in process runs of one seed.
ConcInit == Init /\ users[2] = NoRow
ConcNext == (\E t \in Threads : Step(t, ConcScope)) \/ Restart(ConcScope)
ConcSpec == ConcInit /\ [][ConcNext]_vars

\* Renders of the example patterns for one user, one call at a time.
RenderInit == Init /\ users[2] = NoRow
RenderNext == (\E t \in Threads : Step(t, RenderScope)) \/ Restart(RenderScope)
RenderSpec == RenderInit /\ [][RenderNext]_vars

\* The validator and the sanitizer alone, called one at a time over Texts.
ValScope == [solo |-> TRUE, texts |-> Texts]
ValInit == Init /\ users = [u \in Users |-> NoRow]
ValNext == \E t \in Threads : PureStep(t, ValScope)
ValSpec == ValInit /\ [][ValNext]_vars

\* Patterns saved and texts sent by one user, one call at a time.
SaveScope == [solo |-> TRUE, users |-> {1}, seeds |-> {0}, templates |-> SaveTemplates,
              said |-> SaidTexts, names |-> PatternNames]
SaveInit == Init /\ users[2] = NoRow
SaveNext == (\E t \in Threads : SaveStep(t, SaveScope)) \/ Restart(SaveScope)
SaveSpec == SaveInit /\ [][SaveNext]_vars

\* Renders of the context patterns for one user, one call at a time, whose
\* row, when there is one, was written by add_user with or without a first
\* name and a handle (None, '' or a text).
ExpandScope == [solo |-> TRUE, users |-> {1}, patterns |-> ExpandPatterns, seeds |-> {0},
                files |-> ExpandFiles]
ExpandRows ==
    {NoRow} \cup
    {[exists |-> TRUE, username |-> un, first_name |-> fn, preferences |-> EmptyMap] :
        un \in {NoneStr, <<>>, TokHandle}, fn \in {NoneStr, <<>>} \cup FirstNames}
ExpandInit ==
    /\ hashseed = 0
    /\ user_counters = EmptyMap
    /\ users \in [Users -> ExpandRows]
    /\ users[2] = NoRow
    /\ lock = NoThread
    /\ th = [t \in Threads |-> Idle]
    /\ rename_patterns = {}
    /\ user_states = [u \in Users |-> "none"]
ExpandStep(t, sc) ==
    \/ CallRender(t, sc)
    \/ GetUser(t)
    \/ GcCheck(t)
    \/ GcPut(t)
    \/ GcRet(t)
    \/ IncPut(t)
    \/ SpAcquire(t)
    \/ Return(t)
ExpandNext == (\E t \in Threads : ExpandStep(t, ExpandScope)) \/ Restart(ExpandScope)
ExpandSpec == ExpandInit /\ [][ExpandNext]_vars

\* Concurrent resets and preference writes for one user, whose row holds a
\* counter, a preference that is no counter, both or none.
ResetScope == [solo |-> FALSE, users |-> {1}, seeds |-> {0}, keys |-> PreferenceKeys,
               values |-> PreferenceValues]
ResetRows ==
    {NoRow} \cup
    {[exists |-> TRUE, username |-> un, first_name |-> fn, preferences |-> pr] :
        un \in Usernames, fn \in FirstNames,
        pr \in InitPreferences \cup {Put(ip, KeyLang, 1) : ip \in InitPreferences}}
ResetInit ==
    /\ hashseed = 0
    /\ user_counters = EmptyMap
    /\ users \in [Users -> ResetRows]
    /\ users[2] = NoRow
    /\ lock = NoThread
    /\ th = [t \in Threads |-> Idle]
    /\ rename_patterns = {}
    /\ user_states = [u \in Users |-> "none"]
ResetNext == (\E t \in Threads : ResetStep(t, ResetScope)) \/ Restart(ResetScope)
ResetSpec == ResetInit /\ [][ResetNext]_vars

(***************************************************************************)
(* Vocabulary of the properties.                                           *)
(***************************************************************************)
\* The pattern holds a counter token.
HasCounterToken(p) == FindCounterSpecs(p, 1) # <<>>

\* The cached and the stored counter of (user_id, pattern); 0 when absent.
CachedValue(user_id, pattern) ==
    IF Has(user_counters, CacheKey(user_id, pattern))
    THEN user_counters[CacheKey(user_id, pattern)] ELSE 0
StoredValue(user_id, pattern) == PreferenceOf(users[user_id], PrefKey(pattern), 0)

\* The value the next _get_counter(user_id, pattern) returns.
EffectiveCounter(user_id, pattern) ==
    IF CachedValue(user_id, pattern) # 0 THEN CachedValue(user_id, pattern)
    ELSE IF StoredValue(user_id, pattern) # 0 THEN StoredValue(user_id, pattern)
    ELSE 1

\* The same, as the call of thread record r found it when it started.
EffectiveAtCall(r) ==
    IF r.cached_at_call # 0 THEN r.cached_at_call
    ELSE IF r.stored_at_call # 0 THEN r.stored_at_call
    ELSE 1

\* apply_pattern has computed its pattern-derived name (lines 107-121).
NameComputed(r) == r.op \in {"render", "preview"} /\ r.gc_ret = "inc"

\* Thread t waits for the database lock while holding it: it never runs again.
SelfDeadlocked(t) == th[t].pc = "sp_get_user" /\ lock = t

\* The call of thread t is over: it has returned, or it has stopped for good.
CallEnded(t) ==
    \/ th[t].pc \in {"ap_return", "pv_return", "rs_return", "gc_return"}
    \/ SelfDeadlocked(t)

(***************************************************************************)
(* Properties.                                                             *)
(***************************************************************************)
\* C1: a render of a pattern with a counter token, for a user with no stored
\* counter for it, puts the counter value of its turn into the name: 1 for
\* the first render of the key, the cached next value afterwards.
RenderSubstitutesCounter ==
    \A t \in Threads :
        LET r == th[t]
        IN (r.op = "render" /\ NameComputed(r) /\ HasCounterToken(r.pattern)
               /\ r.stored_at_call = 0)
           => Contains(r.result, IntToStr(EffectiveAtCall(r)))

\* C2: two concurrent renders of the same (user_id, pattern) never read the
\* same counter value, and when both are over the counter is two higher than
\* the first of them found it.
ConcurrentRendersDistinct ==
    \A t1, t2 \in Threads :
        LET r1 == th[t1]
            r2 == th[t2]
        IN (t1 # t2 /\ r1.op = "render" /\ r2.op = "render"
               /\ r1.user_id = r2.user_id /\ r1.pattern = r2.pattern
               /\ r1.counter_value # 0 /\ r2.counter_value # 0)
           => /\ r1.counter_value # r2.counter_value
              /\ (r1.incremented /\ r2.incremented)
                    => CachedValue(r1.user_id, r1.pattern)
                          >= EffectiveAtCall(r1) + 2
                       \/ CachedValue(r1.user_id, r1.pattern)
                          >= EffectiveAtCall(r2) + 2

\* C3: when a preview is over, the counter of its key is what it was when the
\* preview started, in the cache and in the store, and so is the value the
\* next render will use.
PreviewLeavesCounter ==
    \A t \in Threads :
        LET r == th[t]
        IN (r.op = "preview" /\ CallEnded(t))
           => /\ CachedValue(r.user_id, r.pattern) = r.cached_at_call
              /\ StoredValue(r.user_id, r.pattern) = r.stored_at_call
              /\ EffectiveCounter(r.user_id, r.pattern) = EffectiveAtCall(r)

\* C4: when a call that incremented a counter is over, the cache and the
\* durable store both hold the incremented value for the key, with or without
\* a row of the user.
IncrementWritesBoth ==
    \A t \in Threads :
        LET r == th[t]
        IN (r.incremented /\ CallEnded(t))
           => /\ CachedValue(r.user_id, r.pattern) = r.current_value + 1
              /\ StoredValue(r.user_id, r.pattern) = r.current_value + 1

\* The counter value stored for the user under the key of this text, whatever
\* the seed of the run that wrote it; 0 when none is stored.
PersistedFor(user_id, pattern) ==
    LET ks == {k \in DOMAIN users[user_id].preferences :
                  IsCounterPref(k) /\ k[2][2] = pattern}
    IN IF ks = {} THEN 0 ELSE users[user_id].preferences[CHOOSE k \in ks : TRUE]

\* C5: in every process run, a _get_counter that finds nothing cached returns
\* the value persisted for the user and the pattern text (1 when none is).
DurableKeyStable ==
    \A u \in Users, p \in Patterns :
        (CachedValue(u, p) = 0 /\ users[u].exists)
        => EffectiveCounter(u, p) = (IF PersistedFor(u, p) # 0 THEN PersistedFor(u, p) ELSE 1)

\* C6: a step of a render for (u, p) touches no cache entry but the one of
\* (u, p), changes the stored counter of no other pair, and moves the counter
\* of (u, p) itself by at most one step up.
RenderFrame ==
    [][\A t \in Threads :
          (th[t].op = "render" /\ th'[t].op = "render" /\ th'[t] # th[t])
          => LET own == CacheKey(th[t].user_id, th[t].pattern)
             IN /\ \A k \in (DOMAIN user_counters) \cup (DOMAIN user_counters') :
                      (k # own) => /\ k \in DOMAIN user_counters
                                   /\ k \in DOMAIN user_counters'
                                   /\ user_counters'[k] = user_counters[k]
                /\ \A u \in Users, p \in Patterns :
                      (<<u, p>> # <<th[t].user_id, th[t].pattern>>)
                      => StoredValue(u, p)' = StoredValue(u, p)
                /\ EffectiveCounter(th[t].user_id, th[t].pattern)'
                      \in {EffectiveCounter(th[t].user_id, th[t].pattern),
                           EffectiveCounter(th[t].user_id, th[t].pattern) + 1}]_vars

\* C7: when reset_user_counters(u) has returned, the cache holds no key of u,
\* the row of u stores no counter, and _get_counter(u, p) returns 1 for every
\* pattern.
ResetClearsCounters ==
    \A t \in Threads :
        LET r == th[t]
        IN (r.op = "reset" /\ r.pc = "rs_return")
           => /\ \A k \in DOMAIN user_counters : ~IsCacheKeyOf(k, r.user_id)
              /\ \A k \in DOMAIN users[r.user_id].preferences : ~IsCounterPref(k)
              /\ \A p \in Patterns : EffectiveCounter(r.user_id, p) = 1

\* A reset has returned that found a cached and a stored counter of its user.
ResetClearsWitness ==
    \E t \in Threads :
        /\ th[t].op = "reset" /\ th[t].pc = "rs_return"
        /\ th[t].cached_at_call > 0 /\ th[t].stored_at_call > 0

\* C8: _get_counter returns the cached value without reading the store when
\* the key is cached; otherwise the stored value, or 1 when none is stored;
\* and the cache then holds the value returned.
GetCounterContract ==
    \A t \in Threads :
        LET r == th[t]
        IN (r.op = "get" /\ r.pc = "gc_return")
           => /\ r.cached_at_call # 0 => (r.got = r.cached_at_call /\ ~r.db_read)
              /\ r.cached_at_call = 0 =>
                    (r.db_read /\ r.got = IF r.stored_at_call # 0 THEN r.stored_at_call ELSE 1)
              /\ CachedValue(r.user_id, r.pattern) = r.got

\* A _get_counter has returned a stored value that was not cached.
GetCounterWitness ==
    \E t \in Threads :
        /\ th[t].op = "get" /\ th[t].pc = "gc_return"
        /\ th[t].cached_at_call = 0 /\ th[t].stored_at_call > 1
        /\ th[t].got = th[t].stored_at_call

\* C9: apply_pattern increments the counter only once the name is computed,
\* never in a render that fell back or whose substitution failed inside, and
\* a successful render that has returned has incremented it.
IncrementOnlyOnSuccess ==
    \A t \in Threads :
        LET r == th[t]
        IN /\ r.incremented => (NameComputed(r) /\ ~r.failed /\ ~r.fell_back)
           /\ (r.op = "render" /\ r.pc = "ap_return" /\ ~r.failed /\ ~r.fell_back)
                 => r.incremented

\* The text is a run of decimal digits.
AllDigits(s) == \A i \in 1 .. Len(s) : s[i] \in Digits

\* name is <original-without-ext>_<YYYYMMDD_HHMMSS><ext> for the file name.
IsFallbackName(name, filename) ==
    LET o == Len(RemoveExtension(filename))
        x == GetExtension(filename)
    IN /\ Len(name) = o + 16 + Len(x)
       /\ SubSeq(name, 1, o) = RemoveExtension(filename)
       /\ name[o + 1] = "_"
       /\ AllDigits(SubSeq(name, o + 2, o + 9))
       /\ name[o + 10] = "_"
       /\ AllDigits(SubSeq(name, o + 11, o + 16))
       /\ EndsWith(name, x)

\* C10: a render that failed at any step, inside a substitution step or in
\* apply_pattern itself, has the fallback name as the name it returns.
ApplyPatternFallsBack ==
    \A t \in Threads :
        LET r == th[t]
        IN (r.op \in {"render", "preview"}
               /\ (r.fell_back \/ (r.failed /\ NameComputed(r))))
           => IsFallbackName(r.result, r.file_info.name)

\* The spans re.findall(r'\{([^}]+)\}', ...) finds in p: p[i] is the first '{'
\* after the '}' before it, p[j] is the first '}' after p[i], and something
\* stands between them.
FoundSpan(p, i, j) ==
    /\ i + 1 < j
    /\ p[i] = LB
    /\ p[j] = RB
    /\ \A k \in (i + 1) .. (j - 1) : p[k] # RB
    /\ \A k \in 1 .. (i - 1) : p[k] = LB => \E m \in (k + 1) .. (i - 1) : p[m] = RB

\* The span's base name is no variable of the table, nor counter or random.
UnknownSpan(p, i, j) ==
    /\ FoundSpan(p, i, j)
    /\ LET base == BaseVar(SubSeq(p, i + 1, j - 1))
       IN base \notin Variables \cup {<<"c", "o", "u", "n", "t", "e", "r">>, <<"r", "a", "n", "d", "o", "m">>}

\* C13: validate_pattern rejects a blank pattern as empty; a pattern that is
\* not blank and whose counts of '{' and '}' differ as unbalanced; a pattern
\* past both tests with a span of unknown base name as an unknown variable,
\* naming its first such span; '{foo' is unbalanced and
\* '{counter}_{original}.{ext}' is valid.
ValidateRejectsInOrder ==
    \A t \in Threads :
        LET r == th[t]
            p == th[t].pattern
            balanced == CountChar(p, LB) = CountChar(p, RB)
            unknowns == {x \in (1 .. Len(p)) \X (1 .. Len(p)) : UnknownSpan(p, x[1], x[2])}
        IN (r.op = "validate")
           => /\ IsBlank(p) => (~r.valid /\ r.message = MsgEmpty)
              /\ (~IsBlank(p) /\ ~balanced) => (~r.valid /\ r.message = MsgBraces)
              /\ (~IsBlank(p) /\ balanced /\ unknowns # {})
                    => /\ ~r.valid
                       /\ \E x \in unknowns :
                             /\ \A y \in unknowns : x[1] <= y[1]
                             /\ r.message = MsgUnknown(SubSeq(p, x[1] + 1, x[2] - 1))
              /\ (p = TextFoo) => r.message = MsgBraces
              /\ (p = PatCounterOriginalExt) => r.valid

\* A pattern with an unknown variable and unbalanced braces was reported as
\* unbalanced.
ValidateOrderWitness ==
    \E t \in Threads :
        /\ th[t].op = "validate"
        /\ th[t].pattern = <<"{", "n", "o", "p", "e", "}", "{">>
        /\ th[t].message = MsgBraces

\* The text holds nothing but '_' and the characters the sanitizer replaces.
OnlyFiller(x) == \A i \in 1 .. Len(x) : x[i] \in InvalidChars \cup {"_"}

\* C14: validate_pattern rejects every pattern that is not blank and holds
\* nothing but '_' and disallowed characters.
ValidateRejectsFiller ==
    \A t \in Threads :
        (th[t].op = "validate" /\ ~IsBlank(th[t].pattern) /\ OnlyFiller(th[t].pattern))
        => ~th[t].valid

\* C17: _clean_filename applied to its own result returns that result.
CleanIdempotent ==
    \A t \in Threads :
        (th[t].op = "clean" /\ th[t].again) => th[t].result = th[t].work

\* The sanitizer changed its input, and left the changed text alone.
CleanIdempotentWitness ==
    \E t \in Threads :
        /\ th[t].op = "clean" /\ th[t].again
        /\ th[t].pattern = TextRun
        /\ th[t].work = <<"a", "_", "b">>
        /\ th[t].result = th[t].work

\* The characters of x that are neither '_' nor replaced by the sanitizer.
OtherChars(x) == SelectSeq(x, LAMBDA c : c \notin InvalidChars \cup {"_"})

\* What C18 says of every result of _clean_filename: no disallowed character,
\* no run of '_', no '_' at either end, not empty.
IsCleanName(name) ==
    /\ \A i \in 1 .. Len(name) : name[i] \notin InvalidChars
    /\ ~Contains(name, <<"_", "_">>)
    /\ name # <<>>
    /\ name[1] # "_"
    /\ name[Len(name)] # "_"

\* C18 as stated: the result is a clean name, it is 'renamed_file' exactly
\* when the input holds only '_' and disallowed characters, and 'a//b::c'
\* gives 'a_b_c'.
CleanContractExact ==
    \A t \in Threads :
        LET r == th[t]
        IN (r.op = "clean" /\ ~r.again)
           => /\ IsCleanName(r.result)
              /\ (r.result = TokRenamedFile) <=> OnlyFiller(r.pattern)
              /\ (r.pattern = TextFiller) => r.result = <<"a", "_", "b", "_", "c">>

\* C18, amended: the result is a clean name; it is 'renamed_file' whenever
\* the input holds only '_' and disallowed characters; for any other input it
\* keeps exactly the input's other characters, in their order (so that
\* 'renamed_file' is also the result for the input 'renamed_file'); and
\* 'a//b::c' gives 'a_b_c'.
CleanContract ==
    \A t \in Threads :
        LET r == th[t]
        IN (r.op = "clean" /\ ~r.again)
           => /\ IsCleanName(r.result)
              /\ OnlyFiller(r.pattern) => r.result = TokRenamedFile
              /\ ~OnlyFiller(r.pattern) => OtherChars(r.result) = OtherChars(r.pattern)
              /\ (r.pattern = TextFiller) => r.result = <<"a", "_", "b", "_", "c">>

\* The sanitizer returned 'renamed_file' for an input that holds other
\* characters than '_' and the disallowed ones.
CleanContractWitness ==
    \E t \in Threads :
        /\ th[t].op = "clean" /\ ~th[t].again
        /\ ~OnlyFiller(th[t].pattern)
        /\ th[t].pattern # TokRenamedFile
        /\ th[t].result = TokRenamedFile

\* C11: the name apply_pattern hands back lets its caller tell a fallback
\* from a pattern-derived name: a name computed from the pattern is never the
\* fallback name of the same file.
FallbackIsTold ==
    \A t \in Threads :
        LET r == th[t]
        IN (NameComputed(r) /\ ~r.fell_back)
           => r.result # FallbackName(r.file_info)

\* C15: for a file name with an extension, the name apply_pattern computes
\* (pattern-derived or fallback) ends with the extension, and the extension
\* is appended exactly when the sanitized name does not end with it already;
\* a pattern without {ext} on report.pdf gives a name ending in .pdf.
ExtensionGuarantee ==
    \A t \in Threads :
        LET r == th[t]
            ext == GetExtension(r.file_info.name)
        IN (r.op \in {"render", "preview"} /\ ext # <<>>)
           => /\ (NameComputed(r) \/ r.fell_back) => EndsWith(r.result, ext)
              /\ NameComputed(r)
                    => r.result = IF EndsWith(r.cleaned, ext) THEN r.cleaned
                                  ELSE r.cleaned \o ext

ExtensionWitness ==
    \E t \in Threads :
        /\ NameComputed(th[t])
        /\ th[t].pattern = PatOriginal
        /\ th[t].file_info = FileReport
        /\ th[t].cleaned = <<"r", "e", "p", "o", "r", "t">>
        /\ th[t].result = FileReport.name

\* C16: a render of '{counter:03d}_{original}.{ext}' for movie.mp4 that finds
\* the counter at 1 computes the name '001_movie.mp4'.
PaddedCounterExample ==
    \A t \in Threads :
        LET r == th[t]
        IN (r.op = "render" /\ NameComputed(r) /\ r.pattern = PatPadded
               /\ r.file_info = FileMovie /\ EffectiveAtCall(r) = 1)
           => r.result = <<"0", "0", "1", "_", "m", "o", "v", "i", "e", ".", "m", "p", "4">>

\* The random tokens the random step replaces in the text p: '{random:c}' for
\* the first character c of each group found, up to the first empty group.
RECURSIVE ExpandedRandomTokens(_, _)
ExpandedRandomTokens(p, specs) ==
    IF specs = <<>> \/ Head(specs) = <<>> THEN {}
    ELSE LET tok == TokRandomOpen \o <<":", Head(specs)[1], RB>>
         IN (IF Contains(p, tok) THEN {tok} ELSE {})
               \cup ExpandedRandomTokens(p, Tail(specs))

\* C19: the counter, random and static steps run in that order and no step
\* expands a placeholder that an earlier step produced: every random token
\* the random step replaces, and every static token the static step finds,
\* stands in the pattern of the call.
StepsDoNotReexpand ==
    \A t \in Threads :
        LET r == th[t]
        IN NameComputed(r)
           => /\ \A tok \in ExpandedRandomTokens(r.work, FindRandomSpecs(r.work, 1)) :
                    Contains(r.pattern, tok)
              /\ \A i \in 1 .. Len(ContextKeys) :
                    Contains(r.after_randoms, <<LB>> \o ContextKeys[i] \o <<RB>>)
                       => Contains(r.pattern, <<LB>> \o ContextKeys[i] \o <<RB>>)

\* C20: a render of '{counter:zz}_{counter:d}' takes no fallback path and
\* leaves the counter step with both tokens replaced by plain decimal numbers.
InvalidSpecPlainDecimal ==
    \A t \in Threads :
        LET r == th[t]
        IN (NameComputed(r) /\ r.pattern = PatBadSpec)
           => /\ ~r.fell_back
              /\ ~r.failed
              /\ \E k \in 1 .. Len(r.work) :
                    /\ r.work[k] = "_"
                    /\ 1 < k /\ k < Len(r.work)
                    /\ AllDigits(SubSeq(r.work, 1, k - 1))
                    /\ AllDigits(SubSeq(r.work, k + 1, Len(r.work)))

\* C12: no path stores or activates a pattern the validator rejects: every
\* row of rename_patterns holds a template validate_pattern accepts,
\* save_user_pattern and save_pattern_from_text reach the insert only with an
\* accepted template and report success only for one, and the text handler
\* never answers 'Pattern set' for a text the validator rejects.
OnlyValidPatternsSaved ==
    /\ \A row \in rename_patterns : ValidatePattern(row.pattern_template).ok
    /\ \A t \in Threads :
          LET r == th[t]
          IN /\ r.pc = "arp" => ValidatePattern(r.pattern).ok
             /\ r.success => ValidatePattern(r.pattern).ok
             /\ (r.op = "handle_text" /\ r.reply = "pattern_set")
                   => ValidatePattern(r.pattern).ok

\* A saved row stands in the table while save_pattern_from_text has answered
\* a text whose template the validator rejects without storing it.
OnlyValidPatternsWitness ==
    /\ \E row \in rename_patterns : row.pattern_template = TextExt
    /\ \E t \in Threads :
          /\ th[t].op = "save_text"
          /\ th[t].pc = "st_return"
          /\ th[t].reply = "invalid_pattern"
          /\ th[t].pattern = TextNopeVar
          /\ \A row \in rename_patterns : row.pattern_template # TextNopeVar

\* C21: a render replaces every {random:N} token by exactly N decimal digits,
\* for a width of one digit, for a width of two digits and after a plain
\* {random} in the same pattern, and a plain {random} by exactly 6 digits.
RandomWidthsHonoured ==
    \A t \in Threads :
        LET r == th[t]
            n == Len(r.cleaned)
        IN NameComputed(r)
           => /\ r.pattern = PatRandom4 => (n = 4 /\ AllDigits(r.cleaned))
              /\ r.pattern = PatRandomWide => (n = 12 /\ AllDigits(r.cleaned))
              /\ r.pattern = PatRandomAfterPlain
                    => /\ n = 11
                       /\ AllDigits(SubSeq(r.cleaned, 1, 6))
                       /\ r.cleaned[7] = "_"
                       /\ AllDigits(SubSeq(r.cleaned, 8, 11))

\* The display name the render context should hold for the row: 'User' without
\* a row or with a first name that is None or ''.
DisplayNameOf(row) ==
    IF ~row.exists \/ row.first_name = NoneStr \/ row.first_name = <<>>
    THEN TokUserDefault ELSE row.first_name

\* The handle the render context should hold for the row: the username, or
\* the display name when there is none.
HandleOf(row) ==
    IF ~row.exists \/ row.username = NoneStr \/ row.username = <<>>
    THEN DisplayNameOf(row) ELSE row.username

\* C22: in a render of '{user}-{username}', {user} is the display name of
\* the uploader, 'User' when there is none, and {username} is the handle, or
\* the value of {user} when there is none.
UserContextResolved ==
    \A t \in Threads :
        LET r == th[t]
            row == users[r.user_id]
        IN (NameComputed(r) /\ r.pattern = PatUser)
           => r.cleaned = CleanFilename(DisplayNameOf(row) \o <<"-">> \o HandleOf(row))

\* C23: after the counter step of a render no counter token is left in the
\* pattern.
NoCounterTokenRemains ==
    \A t \in Threads :
        NameComputed(th[t]) => ~Contains(th[t].work, TokCounterOpen)

\* C26: the name apply_pattern computes or falls back to holds none of the
\* characters / \ : * ? " < > |.
ResultHasNoInvalidChar ==
    \A t \in Threads :
        LET r == th[t]
        IN (NameComputed(r) \/ r.fell_back)
           => \A i \in 1 .. Len(r.result) : r.result[i] \notin InvalidChars

\* C29: in a render of '{original}' the name of the file without its
\* extension stands in the result as it is (sanitized), also when it holds
\* the text of a placeholder.
InsertedValueStaysLiteral ==
    \A t \in Threads :
        LET r == th[t]
        IN (NameComputed(r) /\ r.pattern = PatOriginal)
           => r.cleaned = CleanFilename(RemoveExtension(r.file_info.name))

\* C30: a render of a pattern validate_pattern accepts leaves no remnant of a
\* {name} or {name:spec} span of the pattern whose base name is a variable of
\* the table in the name.
AcceptedPatternExpanded ==
    \A t \in Threads :
        LET r == th[t]
            p == r.pattern
        IN (NameComputed(r) /\ ValidatePattern(p).ok)
           => \A i \in 1 .. Len(p), j \in 1 .. Len(p) :
                 (FoundSpan(p, i, j) /\ BaseVar(SubSeq(p, i + 1, j - 1)) \in Variables)
                    => ~Contains(r.result, ReplaceInvalid(SubSeq(p, i, j)))

\* C24: the restore of a preview's snapshot of the cache never discards the
\* counter update of a render that runs concurrently: the step that puts the
\* snapshot back leaves the value a render has put for its key as it is.
PreviewRestoreKeepsUpdates ==
    [][\A t \in Threads :
          (th[t].pc = "pv_restore" /\ th'[t].pc = "pv_return")
             => \A o \in Threads \ {t} :
                   LET k == CacheKey(th[o].user_id, th[o].pattern)
                   IN (th[o].op = "render" /\ th[o].incremented
                          /\ k \in DOMAIN user_counters)
                      => /\ k \in DOMAIN user_counters'
                         /\ user_counters'[k] = user_counters[k]]_vars

\* C25: no thread waits for the database lock while it holds it.
NoSelfDeadlock == \A t \in Threads : ~SelfDeadlocked(t)

\* C27: add_user for a user who has a row leaves the preferences of the row
\* as they are.  (add_user is the only step that writes the table and leaves
\* every thread where it is.)
AddUserKeepsPreferences ==
    [][\A u \in Users :
          (th' = th /\ users[u].exists /\ users'[u] # users[u])
             => users'[u].preferences = users[u].preferences]_vars

\* C28: no preference write is lost to a concurrent reset: when a
\* reset_user_counters of a user has completed and a set_user_preference of a
\* key that is no counter, called for the same user while the reset ran, is
\* over, the user's row holds the value under the key.
ResetLosesNoUpdate ==
    \A t \in Threads, o \in Threads :
        LET r == th[t]
            w == th[o]
        IN (r.op = "reset" /\ r.pc = "rs_return"
               /\ w.op = "set_pref" /\ w.during_reset /\ w.user_id = r.user_id
               /\ (w.pc = "sp_return" \/ SelfDeadlocked(o))
               /\ users[w.user_id].exists)
           => PreferenceOf(users[w.user_id], w.pref_key, 0) = w.pref_value

====
